---- MODULE Spec2Model ----
(***************************************************************************)
(* A model of the BlueZ D-Bus device manager (bluez.py) and of its pairing *)
(* Agent (agent.py).                                                       *)
(*                                                                         *)
(* The specifications share the variables:                                 *)
(*   SpecAgent   the seven Agent handlers, driven by the operator callback *)
(*   SpecDevice  pair / connect / disconnect / unpair_device against the   *)
(*               platform's managed-object graph                           *)
(*   SpecObex    send_file, its wait loop, the PropertiesChanged handler   *)
(*               and the OBEX session operations                           *)
(*   SpecSend    successive send_file calls alone, with the service        *)
(*   SpecObexFair  SpecObex with the main loop and the calling flow fair   *)
(*   SpecReceive receive_file and stop_opp_receiver                        *)
(*   SpecRegister  register_agent / unregister_agent, with pair            *)
(*   SpecQuery   is_device_paired / is_device_connected                    *)
(*   SpecMedia   media_control / get_media_control_interface               *)
(*   SpecScan    get_paired_devices / get_discovered_devices               *)
(*   SpecPath    get_device_path on addresses written out in characters    *)
(***************************************************************************)
EXTENDS Integers, Sequences, FiniteSets, TLC

VARIABLES
    ui_callback,        \* Agent.ui_callback: "callable" or "none" (agent.py:19)
    agentCall,          \* the last Agent handler invocation and what it returned
    interface,          \* BluetoothDeviceManager.interface, fixed at construction
    objects,            \* the platform's device objects, by (adapter, address)
    devCall,            \* the last pair/connect/disconnect/unpair_device call
    pc,                 \* position of the calling flow: "idle", or inside send_file
    sf,                 \* locals and bookkeeping of the current send_file call
    has_session_bus,    \* the attribute self.session_bus exists
    has_obex_manager,   \* the attribute self.obex_manager exists
    last_session_path,  \* self.last_session_path (0 = None)
    transfer_status,    \* self.transfer_status["status"] ("unset" = no attribute)
    transfer_loop,      \* self.transfer_loop: "unset", "created", "running", "stopped"
    receivers,          \* transfer paths with a signal receiver (never removed)
    sessions,           \* obexd: the open sessions
    created,            \* obexd: number of sessions created so far
    transfers,          \* obexd: transfer id -> owning session
    queue,              \* PropertiesChanged signals delivered, not yet dispatched
    emitted,            \* number of signals obexd has emitted
    own,                \* the open sessions that create_obex_session opened
    rpc,                \* position of the calling flow inside receive_file
    rf,                 \* locals and bookkeeping of the current receive_file call
    opp_process,        \* self.opp_process: "none", "running", "exited", "terminated"
    directory,          \* the files in the save directory
    arrivals,           \* number of files that have landed in the directory
    agent,              \* self.agent: 0 = None, else the n-th Agent constructed
    registered,         \* BlueZ holds an agent registration of this client
    registeredOnce,     \* some register_agent call has returned True
    regCall,            \* the last register_agent / unregister_agent call
    mediaObjs,          \* the device objects that carry MediaControl1
    mediaCall,          \* the last media_control call
    scanObjs,           \* the device objects as the scans of the object graph see them
    scanCall,           \* the last get_paired_devices / get_discovered_devices call
    pathCall            \* the last get_device_path call

agentVars == <<ui_callback, agentCall>>
devVars == <<interface, objects, devCall>>
mgrVars == <<has_session_bus, has_obex_manager, last_session_path,
             transfer_status, transfer_loop, receivers, own>>
obexdVars == <<sessions, created, transfers, queue, emitted>>
obexVars == <<pc, sf, mgrVars, obexdVars>>
recvVars == <<rpc, rf, opp_process, directory, arrivals>>
regVars == <<agent, registered, registeredOnce, regCall>>
mediaVars == <<mediaObjs, mediaCall>>
scanVars == <<scanObjs, scanCall, pathCall>>
restVars == <<recvVars, regVars, mediaVars, scanVars>>
vars == <<agentVars, devVars, obexVars, restVars>>

(***************************************************************************)
(* Python values, as far as the handlers tell them apart.                  *)
(***************************************************************************)
PyNone == [ty |-> "none", n |-> 0, s |-> ""]
PyBool(b) == [ty |-> "bool", n |-> IF b THEN 1 ELSE 0, s |-> ""]
PyInt(i) == [ty |-> "int", n |-> i, s |-> ""]
PyStr(str) == [ty |-> "str", n |-> 0, s |-> str]
PyUInt32(i) == [ty |-> "UInt32", n |-> i, s |-> ""]
PyFalse == PyBool(FALSE)
PyTrue == PyBool(TRUE)

\* Python truth value testing: None, False, 0 and "" are falsy.
Truthy(v) ==
    CASE v.ty = "none" -> FALSE
      [] v.ty = "bool" -> v.n = 1
      [] v.ty = "int" -> v.n # 0
      [] v.ty = "UInt32" -> v.n # 0
      [] v.ty = "str" -> v.s # ""

\* int(s) for the strings an operator can type; -1 stands for ValueError.
DecimalValue ==
    [s \in {"", "1234", "abcd"} |-> IF s = "1234" THEN 1234 ELSE -1]

Return(v) == [kind |-> "return", val |-> v]
Raise(e) == [kind |-> "raise", val |-> PyStr(e)]

\* dbus.UInt32(x): an int subclass, range-checked to 0 .. 2^32 - 1.  No
\* answer of the model reaches the upper limit (passkeys have six digits),
\* so only the lower limit is stated.
UInt32(v) ==
    LET i == IF v.ty = "str" THEN DecimalValue[v.s] ELSE v.n
    IN  CASE v.ty = "none" -> Raise("TypeError")
          [] v.ty = "str" /\ i < 0 -> Raise("ValueError")
          [] i < 0 -> Raise("OverflowError")
          [] OTHER -> Return(PyUInt32(i))

(***************************************************************************)
(* The operator callback: what ui_callback(kind, device, ...) does.        *)
(***************************************************************************)
Answers ==
    {PyNone, PyFalse, PyTrue, PyInt(0), PyInt(123456), PyInt(-1),
     PyStr(""), PyStr("1234"), PyStr("abcd")}

CallbackOutcomes ==
    {Return(v) : v \in Answers} \cup {Raise("RuntimeError")}

\* Calling self.ui_callback when it is None raises TypeError.
ui_callback_call(cb, outcome) ==
    IF cb = "none" THEN Raise("TypeError") ELSE outcome

Addrs == {"AA", "BB"}

(***************************************************************************)
(* agent.py: the seven handlers.  Each takes the outcome of the callback   *)
(* and gives what the handler does: return a value or raise.               *)
(***************************************************************************)
RequestPinCode(cb) ==
    IF cb.kind = "raise" THEN cb
    ELSE IF Truthy(cb.val) THEN Return(cb.val) ELSE Return(PyFalse)

RequestPasskey(cb) ==
    IF cb.kind = "raise" THEN cb
    ELSE IF cb.val # PyNone THEN UInt32(cb.val) ELSE Return(PyFalse)

RequestConfirmation(cb) ==
    IF cb.kind = "raise" THEN cb
    ELSE IF Truthy(cb.val) THEN Return(PyNone) ELSE Return(PyFalse)

AuthorizeService(cb) ==
    IF cb.kind = "raise" THEN cb
    ELSE IF Truthy(cb.val) THEN Return(PyNone) ELSE Return(PyFalse)

DisplayPasskey(cb) ==
    IF cb.kind = "raise" THEN cb
    ELSE IF Truthy(cb.val) THEN Return(PyNone) ELSE Return(PyFalse)

DisplayPinCode(cb) ==
    IF cb.kind = "raise" THEN cb
    ELSE IF Truthy(cb.val) THEN Return(PyNone) ELSE Return(PyFalse)

Cancel(cb) ==
    IF cb.kind = "raise" THEN cb
    ELSE IF Truthy(cb.val) THEN Return(PyNone) ELSE Return(PyFalse)

Handlers ==
    {"RequestPinCode", "RequestPasskey", "RequestConfirmation",
     "AuthorizeService", "DisplayPasskey", "DisplayPinCode", "Cancel"}

NoAgentCall ==
    [handler |-> "none", device |-> "AA", cb |-> Return(PyNone),
     result |-> Return(PyNone)]

\* One dispatch of a handler by the bus, with the callback's outcome.
Dispatch(h, d, outcome, result) ==
    /\ agentCall' = [handler |-> h, device |-> d, cb |-> outcome, result |-> result]
    /\ UNCHANGED <<ui_callback, devVars, obexVars, restVars>>

DoRequestPinCode ==
    /\ pc = "idle"
    /\ \E d \in Addrs, o \in CallbackOutcomes :
          LET cb == ui_callback_call(ui_callback, o)
          IN  Dispatch("RequestPinCode", d, cb, RequestPinCode(cb))

DoRequestPasskey ==
    /\ pc = "idle"
    /\ \E d \in Addrs, o \in CallbackOutcomes :
          LET cb == ui_callback_call(ui_callback, o)
          IN  Dispatch("RequestPasskey", d, cb, RequestPasskey(cb))

DoRequestConfirmation ==
    /\ pc = "idle"
    /\ \E d \in Addrs, o \in CallbackOutcomes :
          LET cb == ui_callback_call(ui_callback, o)
          IN  Dispatch("RequestConfirmation", d, cb, RequestConfirmation(cb))

DoAuthorizeService ==
    /\ pc = "idle"
    /\ \E d \in Addrs, o \in CallbackOutcomes :
          LET cb == ui_callback_call(ui_callback, o)
          IN  Dispatch("AuthorizeService", d, cb, AuthorizeService(cb))

DoDisplayPasskey ==
    /\ pc = "idle"
    /\ \E d \in Addrs, o \in CallbackOutcomes :
          LET cb == ui_callback_call(ui_callback, o)
          IN  Dispatch("DisplayPasskey", d, cb, DisplayPasskey(cb))

DoDisplayPinCode ==
    /\ pc = "idle"
    /\ \E d \in Addrs, o \in CallbackOutcomes :
          LET cb == ui_callback_call(ui_callback, o)
          IN  Dispatch("DisplayPinCode", d, cb, DisplayPinCode(cb))

DoCancel ==
    /\ pc = "idle"
    /\ \E d \in Addrs, o \in CallbackOutcomes :
          LET cb == ui_callback_call(ui_callback, o)
          IN  Dispatch("Cancel", d, cb, Cancel(cb))

NextAgent ==
    \/ DoRequestPinCode
    \/ DoRequestPasskey
    \/ DoRequestConfirmation
    \/ DoAuthorizeService
    \/ DoDisplayPasskey
    \/ DoDisplayPinCode
    \/ DoCancel

(***************************************************************************)
(* The platform Bluetooth service: device objects in the managed-object    *)
(* graph.  An adapter name is the digit string after "hci", so that        *)
(* str.startswith on object paths is prefix order on adapter names: the    *)
(* path "/org/bluez/hci10/dev_X" starts with "/org/bluez/hci1".            *)
(***************************************************************************)
hci1 == <<1>>
hci10 == <<1, 0>>
Adapters == {hci1, hci10}
Paths == Adapters \X Addrs

Absent == [present |-> FALSE, paired |-> FALSE, connected |-> FALSE]
ObjStates ==
    {Absent} \cup [present : {TRUE}, paired : BOOLEAN, connected : BOOLEAN]

IsPrefix(p, q) ==
    /\ Len(p) <= Len(q)
    /\ \A i \in 1..Len(p) : p[i] = q[i]

\* path.startswith(self.adapter_path), for the path of a device object
startswith(path, adapter) == IsPrefix(adapter, path[1])

\* bluez.py:100, as the (adapter, address) pair naming the object
get_device_path(iface, device_address) == <<iface, device_address>>

\* A bus call fails when the fault is injected at it, or its object is gone.
NoFault == "none"

NoDevCall ==
    [op |-> "none", addr |-> "AA", pre |-> Absent, fault |-> NoFault,
     faulted |-> FALSE, cmds |-> 0, target |-> <<hci1, "AA">>, ret |-> "None"]

DevResult(ret, cmds, faulted, objs) ==
    [ret |-> ret, cmds |-> cmds, faulted |-> faulted, objs |-> objs]

(***************************************************************************)
(* bluez.py:135 pair.  objs is the platform state, f the bus call at which *)
(* a DBusException is raised (if any), post the Paired property after the  *)
(* Pair command.                                                           *)
(***************************************************************************)
PairFaults == {NoFault, "get_object", "Get", "Pair", "Get2"}

\* pair without the early return for a device that is already paired
pair_reissues(objs, iface, address, f, post) ==
    LET device_path == <<iface, address>>
        dev == objs[device_path]
        after == IF dev.present
                 THEN [objs EXCEPT ![device_path].paired = post]
                 ELSE objs
    IN  IF f \in {"get_object", "Get"} \/ ~dev.present
        THEN DevResult("None", 0, TRUE, objs)
        ELSE IF f \in {"Pair", "Get2"} THEN DevResult("None", 1, TRUE, after)
        ELSE IF after[device_path].paired THEN DevResult("True", 1, FALSE, after)
        ELSE DevResult("False", 1, FALSE, after)

\* pair that trusts the completion of the Pair command
pair_trusts_command(objs, iface, address, f, post) ==
    LET device_path == <<iface, address>>
        dev == objs[device_path]
        after == IF dev.present
                 THEN [objs EXCEPT ![device_path].paired = post]
                 ELSE objs
    IN  IF f \in {"get_object", "Get"} \/ ~dev.present
        THEN DevResult("None", 0, TRUE, objs)
        ELSE IF dev.paired THEN DevResult("True", 0, FALSE, objs)
        ELSE IF f = "Pair" THEN DevResult("None", 1, TRUE, after)
        ELSE DevResult("True", 1, FALSE, after)

pair(objs, iface, address, f, post) ==
    LET device_path == get_device_path(iface, address)
        dev == objs[device_path]
        after == IF dev.present
                 THEN [objs EXCEPT ![device_path].paired = post]
                 ELSE objs
    IN  IF f = "get_object" THEN DevResult("None", 0, TRUE, objs)
        ELSE IF f = "Get" \/ ~dev.present THEN DevResult("None", 0, TRUE, objs)
        ELSE IF dev.paired THEN DevResult("True", 0, FALSE, objs)
        ELSE IF f = "Pair" THEN DevResult("None", 1, TRUE, after)
        ELSE IF f = "Get2" THEN DevResult("None", 1, TRUE, after)
        ELSE IF after[device_path].paired THEN DevResult("True", 1, FALSE, after)
        ELSE DevResult("False", 1, FALSE, after)

(***************************************************************************)
(* bluez.py:164 connect: any exception gives False; a read-back that is    *)
(* false falls off the end of the function (None).                         *)
(***************************************************************************)
ConnectFaults == {NoFault, "get_object", "Connect", "get_object2", "Get"}

connect(objs, iface, address, f, post) ==
    LET device_path == get_device_path(iface, address)
        dev == objs[device_path]
        after == IF dev.present
                 THEN [objs EXCEPT ![device_path].connected = post]
                 ELSE objs
    IN  IF f = "get_object" THEN DevResult("False", 0, TRUE, objs)
        ELSE IF f = "Connect" \/ ~dev.present THEN DevResult("False", 1, TRUE, after)
        ELSE IF f \in {"get_object2", "Get"} THEN DevResult("False", 1, TRUE, after)
        ELSE IF after[device_path].connected THEN DevResult("True", 1, FALSE, after)
        ELSE DevResult("None", 1, FALSE, after)

(***************************************************************************)
(* bluez.py:186 disconnect: True straight after the Disconnect command.    *)
(***************************************************************************)
DisconnectFaults == {NoFault, "get_object", "Get", "Disconnect"}

\* disconnect without the early return for a device that is not connected
disconnect_always_commands(objs, iface, address, f, post) ==
    LET device_path == <<iface, address>>
        dev == objs[device_path]
        after == IF dev.present
                 THEN [objs EXCEPT ![device_path].connected = post]
                 ELSE objs
    IN  IF f \in {"get_object", "Get"} \/ ~dev.present
        THEN DevResult("False", 0, TRUE, objs)
        ELSE IF f = "Disconnect" THEN DevResult("False", 1, TRUE, after)
        ELSE DevResult("True", 1, FALSE, after)

disconnect(objs, iface, address, f, post) ==
    LET device_path == get_device_path(iface, address)
        dev == objs[device_path]
        after == IF dev.present
                 THEN [objs EXCEPT ![device_path].connected = post]
                 ELSE objs
    IN  IF f = "get_object" THEN DevResult("False", 0, TRUE, objs)
        ELSE IF f = "Get" \/ ~dev.present THEN DevResult("False", 0, TRUE, objs)
        ELSE IF ~dev.connected THEN DevResult("True", 0, FALSE, objs)
        ELSE IF f = "Disconnect" THEN DevResult("False", 1, TRUE, after)
        ELSE DevResult("True", 1, FALSE, after)

(***************************************************************************)
(* bluez.py:209 unpair_device.  The first scan keeps the objects whose     *)
(* Address matches and whose path starts with the adapter path; the scan   *)
(* after the settle interval matches on Address alone.  target is the      *)
(* match the dictionary iteration meets first, gone whether RemoveDevice   *)
(* took effect.                                                            *)
(***************************************************************************)
UnpairFaults == {NoFault, "GetManagedObjects", "RemoveDevice", "GetManagedObjects2"}

FirstScan(objs, iface, address) ==
    {p \in Paths : objs[p].present /\ p[2] = address /\ startswith(p, iface)}

SecondScan(objs, address) ==
    {p \in Paths : objs[p].present /\ p[2] = address}

unpair_device(objs, iface, address, f, target, gone) ==
    LET found == target \in FirstScan(objs, iface, address)
        \* the bound adapter's RemoveDevice only knows its own devices
        known == target[1] = iface
        after == IF found /\ known /\ gone
                 THEN [objs EXCEPT ![target] = Absent]
                 ELSE objs
    IN  IF f = "GetManagedObjects" THEN DevResult("False", 0, TRUE, objs)
        ELSE IF ~found THEN DevResult("True", 0, FALSE, objs)
        ELSE IF f = "RemoveDevice" \/ ~known THEN DevResult("False", 1, TRUE, after)
        ELSE IF f = "GetManagedObjects2" THEN DevResult("False", 1, TRUE, after)
        ELSE IF SecondScan(after, address) # {} THEN DevResult("False", 1, FALSE, after)
        ELSE DevResult("True", 1, FALSE, after)

\* The record of a finished call: pre is the device under the bound adapter
\* as it was when the call started, fault the bus call set to fail, faulted
\* whether the call got as far as failing.
Finish(op, a, f, target, r) ==
    /\ devCall' = [op |-> op, addr |-> a,
                   pre |-> objects[get_device_path(interface, a)],
                   fault |-> f, faulted |-> r.faulted, cmds |-> r.cmds,
                   target |-> target, ret |-> r.ret]
    /\ objects' = r.objs
    /\ UNCHANGED <<interface, agentVars, obexVars, restVars>>

DoPair ==
    /\ pc = "idle"
    /\ \E a \in Addrs, f \in PairFaults, post \in BOOLEAN :
          Finish("pair", a, f, get_device_path(interface, a),
                 pair(objects, interface, a, f, post))

DoConnect ==
    /\ pc = "idle"
    /\ \E a \in Addrs, f \in ConnectFaults, post \in BOOLEAN :
          Finish("connect", a, f, get_device_path(interface, a),
                 connect(objects, interface, a, f, post))

DoDisconnect ==
    /\ pc = "idle"
    /\ \E a \in Addrs, f \in DisconnectFaults, post \in BOOLEAN :
          Finish("disconnect", a, f, get_device_path(interface, a),
                 disconnect(objects, interface, a, f, post))

DoUnpair ==
    /\ pc = "idle"
    /\ \E a \in Addrs, f \in UnpairFaults, gone \in BOOLEAN :
          LET matches == FirstScan(objects, interface, a)
          IN  \E t \in (IF matches = {} THEN {get_device_path(interface, a)}
                        ELSE matches) :
                  Finish("unpair_device", a, f, t,
                         unpair_device(objects, interface, a, f, t, gone))

NextDevice ==
    \/ DoPair
    \/ DoConnect
    \/ DoDisconnect
    \/ DoUnpair

(***************************************************************************)
(* The object-push service (obexd) and the transfer/session coordinator.   *)
(* Sessions and transfers are numbered in creation order; 0 stands for     *)
(* None and -1 for False.                                                  *)
(***************************************************************************)
MaxSessions == 2
MaxTransfers == 2
MaxEvents == 2

Terminal == {"complete", "error", "cancelled"}
NonTerminal == {"queued", "active"}
Statuses == NonTerminal \cup Terminal
\* what a PropertiesChanged signal carries: a Status, or other properties only
Changed == Statuses \cup {"Transferred"}

LiveTransfers == {t \in 1..Len(transfers) : transfers[t] \in sessions}

\* RemoveSession on the service: the session and its transfers go away
\* unless the call fails; a session that is not open is an error reply.
RemoveSession(open, session_path, f) ==
    IF f # NoFault \/ session_path \notin open THEN open
    ELSE open \ {session_path}

(***************************************************************************)
(* bluez.py:503 create_obex_session, on a record m of the manager's and    *)
(* the service's fields; f is the bus call that fails, if any.             *)
(***************************************************************************)
CreateFaults == {NoFault, "SessionBus", "get_object", "CreateSession"}

Fields ==
    [bus |-> has_session_bus, mgr |-> has_obex_manager, last |-> last_session_path,
     open |-> sessions, n |-> created, own |-> own]

create_obex_session(m, f) ==
    IF f = "SessionBus" THEN [ret |-> -1, m |-> m]
    ELSE IF f = "get_object" THEN [ret |-> -1, m |-> [m EXCEPT !.bus = TRUE]]
    ELSE IF f = "CreateSession"
    THEN [ret |-> -1, m |-> [m EXCEPT !.bus = TRUE, !.mgr = TRUE]]
    ELSE [ret |-> m.n + 1,
          m |-> [m EXCEPT !.bus = TRUE, !.mgr = TRUE, !.last = m.n + 1,
                          !.open = m.open \cup {m.n + 1}, !.n = m.n + 1,
                          !.own = m.own \cup {m.n + 1}]]

(***************************************************************************)
(* bluez.py:524 remove_obex_session: every exception is swallowed, and     *)
(* last_session_path is cleared whatever happened.  issued counts the      *)
(* RemoveSession commands sent.                                            *)
(***************************************************************************)
RemoveFaults == {NoFault, "RemoveSession"}

remove_obex_session(m, session_path, f) ==
    IF ~m.mgr THEN [issued |-> 0, m |-> [m EXCEPT !.last = 0]]
    ELSE [issued |-> 1,
          m |-> [m EXCEPT !.last = 0,
                          !.open = RemoveSession(m.open, session_path, f)]]

SetFields(m) ==
    /\ has_session_bus' = m.bus
    /\ has_obex_manager' = m.mgr
    /\ last_session_path' = m.last
    /\ sessions' = m.open
    /\ created' = m.n
    /\ own' = m.own \cap m.open

(***************************************************************************)
(* bluez.py:379 send_file.                                                 *)
(***************************************************************************)
NoSend ==
    [supplied |-> 0, session_path |-> 0, made |-> 0, transfer |-> 0,
     removes |-> 0, foreign |-> FALSE, waited |-> FALSE, last |-> "none",
     term |-> FALSE, ret |-> "none", how |-> "none"]

SendFaults == {NoFault, "get_object", "SendFile"}

\* send_file that opens its session before it looks for the file
send_file_checks_late(m, exists, supplied, fc, fs) ==
    LET c == IF supplied = 0 THEN create_obex_session(m, fc)
             ELSE [ret |-> supplied, m |-> m]
    IN  IF ~exists
        THEN [m |-> c.m, started |-> FALSE,
              sf |-> [NoSend EXCEPT !.supplied = supplied, !.ret = "error",
                                    !.how = "nofile"]]
        ELSE [m |-> c.m, started |-> FALSE,
              sf |-> [NoSend EXCEPT !.supplied = supplied, !.ret = "error",
                                    !.how = "except"]]

\* lines 391-398: the file check, the session, the SendFile command
send_file_begin(m, exists, supplied, fc, fs) ==
    LET c == IF supplied = 0 THEN create_obex_session(m, fc)
             ELSE [ret |-> supplied, m |-> m]
        session_path == c.ret
        made == IF supplied = 0 /\ c.ret > 0 THEN c.ret ELSE 0
        call == [NoSend EXCEPT !.supplied = supplied,
                               !.session_path = session_path, !.made = made]
        failed == [call EXCEPT !.ret = "error", !.how = "except"]
    IN  IF ~exists
        THEN [m |-> m, started |-> FALSE,
              sf |-> [NoSend EXCEPT !.supplied = supplied, !.ret = "error",
                                    !.how = "nofile"]]
        ELSE IF \/ ~c.m.bus
                \/ session_path = -1
                \/ fs # NoFault
                \/ session_path \notin c.m.open
        THEN [m |-> c.m, started |-> FALSE, sf |-> failed]
        ELSE [m |-> c.m, started |-> TRUE,
              sf |-> [call EXCEPT !.ret = "pending"]]

DoSendFile ==
    /\ pc = "idle"
    /\ \E exists \in BOOLEAN, supplied \in 0..created :
       \E fc \in (IF exists /\ supplied = 0 THEN CreateFaults ELSE {NoFault}) :
       \E fs \in (IF exists /\ fc = NoFault THEN SendFaults ELSE {NoFault}) :
          /\ (exists /\ supplied = 0) => created < MaxSessions
          /\ LET r == send_file_begin(Fields, exists, supplied, fc, fs)
             IN  /\ r.started => Len(transfers) < MaxTransfers
                 /\ SetFields(r.m)
                 /\ IF r.started
                    THEN /\ transfers' = Append(transfers, r.sf.session_path)
                         /\ sf' = [r.sf EXCEPT !.transfer = Len(transfers) + 1]
                         /\ pc' = "started"
                    ELSE /\ transfers' = transfers
                         /\ sf' = r.sf
                         /\ pc' = "returned"
    /\ UNCHANGED <<transfer_status, transfer_loop, receivers, queue, emitted,
                   agentVars, devVars, restVars>>

\* lines 400-409: the status record, the signal receiver, the wait loop
SubscribeFaults == {NoFault, "add_signal_receiver"}

send_file_subscribe(call, subs, f) ==
    IF f = "add_signal_receiver"
    THEN [receivers |-> subs, loop |-> transfer_loop, pc |-> "returned",
          sf |-> [call EXCEPT !.ret = "error", !.how = "except"]]
    ELSE [receivers |-> subs \cup {call.transfer}, loop |-> "running",
          pc |-> "waiting", sf |-> call]

DoSubscribe ==
    /\ pc = "started"
    /\ \E f \in SubscribeFaults :
          LET r == send_file_subscribe(sf, receivers, f)
          IN  /\ transfer_status' = "unknown"
              /\ receivers' = r.receivers
              /\ transfer_loop' = r.loop
              /\ pc' = r.pc
              /\ sf' = r.sf
    /\ UNCHANGED <<has_session_bus, has_obex_manager, last_session_path, own,
                   obexdVars, agentVars, devVars, restVars>>

(***************************************************************************)
(* bluez.py:468 obex_properties_changed, for one signal.  The path of the  *)
(* signal is not looked at.  Gives the new status and loop state.          *)
(***************************************************************************)
obex_properties_changed(status, loop, changed, path) ==
    IF changed \in Statuses
    THEN [status |-> changed,
          loop |-> IF changed \in Terminal /\ loop = "running"
                   THEN "stopped" ELSE loop]
    ELSE [status |-> status, loop |-> loop]

\* The main loop dispatches the oldest delivered signal: inside send_file's
\* wait, or in the host's own loop between calls.
DispatchSignal ==
    /\ queue # <<>>
    /\ \/ pc = "waiting" /\ transfer_loop = "running"
       \/ pc = "idle"
    /\ LET ev == Head(queue)
           r == obex_properties_changed(transfer_status, transfer_loop,
                                        ev.changed, ev.path)
       IN  /\ transfer_status' = r.status
           /\ transfer_loop' = r.loop
           /\ queue' = Tail(queue)
           /\ sf' = IF pc # "waiting" \/ ev.changed \notin Statuses THEN sf
                    ELSE IF ev.path # sf.transfer
                    THEN [sf EXCEPT !.foreign = TRUE]
                    ELSE [sf EXCEPT !.last = ev.changed,
                                    !.waited = @ \/ ev.changed \in NonTerminal]
    /\ UNCHANGED <<pc, has_session_bus, has_obex_manager, last_session_path,
                   own, receivers, sessions, created, transfers, emitted,
                   agentVars, devVars, restVars>>

\* lines 410-412, once the loop has been quit
send_file_finish(m, call, status, f) ==
    LET r == remove_obex_session(m, call.session_path, f)
    IN  [m |-> r.m,
         sf |-> [call EXCEPT !.removes = @ + r.issued, !.ret = status,
                             !.how = "normal"]]

DoFinish ==
    /\ pc = "waiting"
    /\ transfer_loop = "stopped"
    /\ \E f \in RemoveFaults :
          LET r == send_file_finish(Fields, sf, transfer_status, f)
          IN  /\ SetFields(r.m)
              /\ sf' = r.sf
    /\ pc' = "returned"
    /\ UNCHANGED <<transfer_status, transfer_loop, receivers, transfers, queue,
                   emitted, agentVars, devVars, restVars>>

\* The caller has the result; the call's locals are gone.
SendFileReturn ==
    /\ pc = "returned"
    /\ pc' = "idle"
    /\ sf' = NoSend
    /\ UNCHANGED <<mgrVars, obexdVars, agentVars, devVars, restVars>>

\* The caller's own create_obex_session and remove_obex_session calls.
DoCreateSession ==
    /\ pc = "idle"
    /\ created < MaxSessions
    /\ \E f \in CreateFaults :
          LET r == create_obex_session(Fields, f)
          IN  SetFields(r.m)
    /\ UNCHANGED <<pc, sf, transfer_status, transfer_loop, receivers, transfers,
                   queue, emitted, agentVars, devVars, restVars>>

DoRemoveSession ==
    /\ pc = "idle"
    /\ \E session_path \in 1..created, f \in RemoveFaults :
          LET r == remove_obex_session(Fields, session_path, f)
          IN  SetFields(r.m)
    /\ UNCHANGED <<pc, sf, transfer_status, transfer_loop, receivers, transfers,
                   queue, emitted, agentVars, devVars, restVars>>

(***************************************************************************)
(* The service's side: another client opens a session; a live transfer     *)
(* emits PropertiesChanged, which reaches this connection only when a      *)
(* receiver for its path has been added.                                   *)
(***************************************************************************)
ExternalCreateSession ==
    /\ created < MaxSessions
    /\ sessions' = sessions \cup {created + 1}
    /\ created' = created + 1
    /\ UNCHANGED <<pc, sf, mgrVars, transfers, queue, emitted,
                   agentVars, devVars, restVars>>

EmitSignal ==
    /\ emitted < MaxEvents
    /\ \E t \in LiveTransfers, c \in Changed :
          /\ queue' = IF t \in receivers
                      THEN Append(queue, [path |-> t, changed |-> c])
                      ELSE queue
          /\ sf' = IF pc \in {"started", "waiting"} /\ t = sf.transfer
                      /\ c \in Terminal
                   THEN [sf EXCEPT !.term = TRUE] ELSE sf
    /\ emitted' = emitted + 1
    /\ UNCHANGED <<pc, mgrVars, sessions, created, transfers,
                   agentVars, devVars, restVars>>

NextObex ==
    \/ DoSendFile
    \/ DoSubscribe
    \/ DispatchSignal
    \/ DoFinish
    \/ SendFileReturn
    \/ DoCreateSession
    \/ DoRemoveSession
    \/ ExternalCreateSession
    \/ EmitSignal

\* send_file calls only, and what the service does meanwhile
NextSend ==
    \/ DoSendFile
    \/ DoSubscribe
    \/ DispatchSignal
    \/ DoFinish
    \/ SendFileReturn
    \/ EmitSignal

(***************************************************************************)
(* bluez.py:241 is_device_paired and bluez.py:258 is_device_connected.     *)
(* The result "raise" is an exception leaving the function.                *)
(***************************************************************************)
QueryFaults == {NoFault, "get_object", "Get"}

\* line 251 stands before the try; only the Get is guarded
is_device_paired(objs, iface, address, f) ==
    LET dev == objs[get_device_path(iface, address)]
    IN  IF f = "get_object" THEN DevResult("raise", 0, TRUE, objs)
        ELSE IF f = "Get" \/ ~dev.present THEN DevResult("False", 0, TRUE, objs)
        ELSE IF dev.paired THEN DevResult("True", 0, FALSE, objs)
        ELSE DevResult("False", 0, FALSE, objs)

\* lines 267-277: both bus calls are inside the try; the device path always
\* holds self.interface, being built from it
is_device_connected(objs, iface, address, f) ==
    LET dev == objs[get_device_path(iface, address)]
    IN  IF f = "get_object" THEN DevResult("False", 0, TRUE, objs)
        ELSE IF f = "Get" \/ ~dev.present THEN DevResult("False", 0, TRUE, objs)
        ELSE IF dev.connected THEN DevResult("True", 0, FALSE, objs)
        ELSE DevResult("False", 0, FALSE, objs)

DoIsDevicePaired ==
    /\ pc = "idle"
    /\ \E a \in Addrs, f \in QueryFaults :
          Finish("is_device_paired", a, f, get_device_path(interface, a),
                 is_device_paired(objects, interface, a, f))

DoIsDeviceConnected ==
    /\ pc = "idle"
    /\ \E a \in Addrs, f \in QueryFaults :
          Finish("is_device_connected", a, f, get_device_path(interface, a),
                 is_device_connected(objects, interface, a, f))

NextQuery ==
    \/ DoIsDevicePaired
    \/ DoIsDeviceConnected

(***************************************************************************)
(* bluez.py:417 receive_file and bluez.py:459 stop_opp_receiver.  Files    *)
(* are numbered in order of arrival in the save directory; 0 stands for    *)
(* None.  Time is counted in ticks of the wall clock.                      *)
(***************************************************************************)
MaxFiles == 2
MaxTimeout == 2

Files == 1..MaxFiles

\* bluez.py:459: terminate the process if there is one and it still runs
stop_opp_receiver(proc) ==
    IF proc = "running" THEN "terminated" ELSE proc

\* killall -9 obexpushd (line 431)
killall(proc) ==
    IF proc = "running" THEN "exited" ELSE proc

NoReceive ==
    [timeout |-> 0, has_cb |-> FALSE, existing |-> {}, elapsed |-> 0,
     started |-> FALSE, last |-> "none", file |-> 0, ret |-> 0, how |-> "none"]

BeginFaults == {NoFault, "makedirs", "listdir", "Popen"}

\* lines 428-436: up to the start of the polling loop
receive_file_begin(proc, dir, timeout, has_cb, f) ==
    LET call == [NoReceive EXCEPT !.timeout = timeout, !.has_cb = has_cb]
        failed == [call EXCEPT !.how = "except"]
    IN  IF f = "makedirs"
        THEN [rpc |-> "returned", proc |-> stop_opp_receiver(proc), rf |-> failed]
        ELSE IF f \in {"listdir", "Popen"}
        THEN [rpc |-> "returned", proc |-> stop_opp_receiver(killall(proc)),
              rf |-> failed]
        ELSE [rpc |-> "polling", proc |-> "running",
              rf |-> [call EXCEPT !.existing = dir, !.started = TRUE]]

PollFaults == {NoFault, "listdir", "remove"}

\* receive_file whose rejection branch leaves the push server running
receive_file_poll_keeps_server(call, proc, dir, pick, cb, f) ==
    LET new_files == dir \ call.existing
        seen == [call EXCEPT !.file = pick]
    IN  IF f = "listdir" \/ (new_files # {} /\ call.has_cb /\ cb.kind = "raise")
        THEN [rpc |-> "returned", proc |-> stop_opp_receiver(proc), dir |-> dir,
              rf |-> [call EXCEPT !.how = "except"]]
        ELSE IF new_files = {}
        THEN [rpc |-> "polling", proc |-> proc, dir |-> dir, rf |-> call]
        ELSE IF ~call.has_cb \/ Truthy(cb.val)
        THEN [rpc |-> "returned", proc |-> stop_opp_receiver(proc), dir |-> dir,
              rf |-> [seen EXCEPT !.last = "accept", !.ret = pick,
                                  !.how = "accept"]]
        ELSE IF f = "remove"
        THEN [rpc |-> "returned", proc |-> stop_opp_receiver(proc), dir |-> dir,
              rf |-> [seen EXCEPT !.last = "reject", !.how = "except"]]
        ELSE [rpc |-> "polling", proc |-> proc, dir |-> dir \ {pick},
              rf |-> [seen EXCEPT !.last = "reject"]]

\* lines 437-457: one pass of the loop body, entered with time left.  pick
\* is the file new_files.pop() yields, cb what the confirmation callback does.
receive_file_poll(call, proc, dir, pick, cb, f) ==
    LET new_files == dir \ call.existing
        seen == [call EXCEPT !.file = pick]
    IN  IF f = "listdir" \/ (new_files # {} /\ call.has_cb /\ cb.kind = "raise")
        THEN [rpc |-> "returned", proc |-> stop_opp_receiver(proc), dir |-> dir,
              rf |-> [call EXCEPT !.how = "except"]]
        ELSE IF new_files = {}
        THEN [rpc |-> "polling", proc |-> proc, dir |-> dir, rf |-> call]
        ELSE IF ~call.has_cb \/ Truthy(cb.val)
        THEN [rpc |-> "returned", proc |-> stop_opp_receiver(proc), dir |-> dir,
              rf |-> [seen EXCEPT !.last = "accept", !.ret = pick,
                                  !.how = "accept"]]
        ELSE IF f = "remove"
        THEN [rpc |-> "returned", proc |-> stop_opp_receiver(proc), dir |-> dir,
              rf |-> [seen EXCEPT !.last = "reject", !.how = "except"]]
        ELSE [rpc |-> "polling", proc |-> stop_opp_receiver(proc),
              dir |-> dir \ {pick}, rf |-> [seen EXCEPT !.last = "reject"]]

\* the loop condition is false: the function falls off its end
receive_file_timeout(call, proc) ==
    [rpc |-> "returned", proc |-> proc,
     rf |-> [call EXCEPT !.ret = 0, !.how = "timeout"]]

DoReceiveFile ==
    /\ rpc = "idle"
    /\ \E timeout \in 0..MaxTimeout, has_cb \in BOOLEAN, f \in BeginFaults :
          LET r == receive_file_begin(opp_process, directory, timeout, has_cb, f)
          IN  /\ rpc' = r.rpc
              /\ rf' = r.rf
              /\ opp_process' = r.proc
    /\ UNCHANGED <<directory, arrivals, agentVars, devVars, obexVars, regVars,
                   mediaVars, scanVars>>

DoPoll ==
    /\ rpc = "polling"
    /\ rf.elapsed < rf.timeout
    /\ LET new_files == directory \ rf.existing
       IN  \E pick \in (IF new_files = {} THEN {0} ELSE new_files),
              cb \in CallbackOutcomes, f \in PollFaults :
              LET r == receive_file_poll(rf, opp_process, directory, pick, cb, f)
              IN  /\ rpc' = r.rpc
                  /\ rf' = r.rf
                  /\ opp_process' = r.proc
                  /\ directory' = r.dir
    /\ UNCHANGED <<arrivals, agentVars, devVars, obexVars, regVars, mediaVars, scanVars>>

DoTimeout ==
    /\ rpc = "polling"
    /\ rf.elapsed >= rf.timeout
    /\ LET r == receive_file_timeout(rf, opp_process)
       IN  /\ rpc' = r.rpc
           /\ rf' = r.rf
           /\ opp_process' = r.proc
    /\ UNCHANGED <<directory, arrivals, agentVars, devVars, obexVars, regVars,
                   mediaVars, scanVars>>

\* The caller has the result.
ReceiveFileReturn ==
    /\ rpc = "returned"
    /\ rpc' = "idle"
    /\ rf' = NoReceive
    /\ UNCHANGED <<opp_process, directory, arrivals, agentVars, devVars,
                   obexVars, regVars, mediaVars, scanVars>>

\* The caller's own stop_opp_receiver call.
DoStopReceiver ==
    /\ rpc = "idle"
    /\ opp_process' = stop_opp_receiver(opp_process)
    /\ UNCHANGED <<rpc, rf, directory, arrivals, agentVars, devVars, obexVars,
                   regVars, mediaVars, scanVars>>

\* The surroundings: the clock, a file landing in the directory, the push
\* server ending by itself.
Tick ==
    /\ rpc = "polling"
    /\ rf.elapsed < rf.timeout
    /\ rf' = [rf EXCEPT !.elapsed = @ + 1]
    /\ UNCHANGED <<rpc, opp_process, directory, arrivals, agentVars, devVars,
                   obexVars, regVars, mediaVars, scanVars>>

FileArrives ==
    /\ arrivals < MaxFiles
    /\ arrivals' = arrivals + 1
    /\ directory' = directory \cup {arrivals + 1}
    /\ UNCHANGED <<rpc, rf, opp_process, agentVars, devVars, obexVars, regVars,
                   mediaVars, scanVars>>

ProcessExits ==
    /\ opp_process = "running"
    /\ opp_process' = "exited"
    /\ UNCHANGED <<rpc, rf, directory, arrivals, agentVars, devVars, obexVars,
                   regVars, mediaVars, scanVars>>

NextReceive ==
    \/ DoReceiveFile
    \/ DoPoll
    \/ DoTimeout
    \/ ReceiveFileReturn
    \/ DoStopReceiver
    \/ Tick
    \/ FileArrives
    \/ ProcessExits

(***************************************************************************)
(* bluez.py:113 register_agent, bluez.py:537 setup_agent and bluez.py:545  *)
(* unregister_agent.  ag is self.agent, reg whether BlueZ holds a          *)
(* registration of this client; f is the step that fails, if any.  BlueZ   *)
(* answers RegisterAgent from a client it already holds an agent for with  *)
(* the AlreadyExists error, a DBusException.                               *)
(***************************************************************************)
NoRegCall ==
    [op |-> "none", pre_agent |-> 0, pre_reg |-> FALSE, cmds |-> 0,
     ret |-> "None"]

RegResult(ret, ag, reg, cmds) ==
    [ret |-> ret, agent |-> ag, reg |-> reg, cmds |-> cmds]

\* bluez.py:543: the next Agent object
setup_agent(ag) == ag + 1

\* register_agent that builds an Agent on every call
register_agent_rebuilds(ag, reg, f) ==
    IF f = "Agent" THEN RegResult("raise", ag, reg, 0)
    ELSE LET a == setup_agent(ag)
         IN  IF f = "get_object" THEN RegResult("False", a, reg, 0)
             ELSE IF f = "RegisterAgent" \/ reg THEN RegResult("False", a, reg, 1)
             ELSE IF f = "RequestDefaultAgent" THEN RegResult("False", a, TRUE, 1)
             ELSE RegResult("True", a, TRUE, 1)

\* register_agent that reports success whatever the platform answered
register_agent_accepts(ag, reg, f) ==
    IF ag = 0 /\ f = "Agent" THEN RegResult("raise", ag, reg, 0)
    ELSE LET a == IF ag = 0 THEN setup_agent(ag) ELSE ag
         IN  IF f = "get_object" THEN RegResult("True", a, reg, 0)
             ELSE IF f = "RegisterAgent" \/ reg THEN RegResult("True", a, reg, 1)
             ELSE RegResult("True", a, TRUE, 1)

\* lines 123-133; an exception of the Agent constructor is no DBusException
\* and leaves the function
register_agent(ag, reg, f) ==
    IF ag = 0 /\ f = "Agent" THEN RegResult("raise", ag, reg, 0)
    ELSE LET a == IF ag = 0 THEN setup_agent(ag) ELSE ag
         IN  IF f = "get_object" THEN RegResult("False", a, reg, 0)
             ELSE IF f = "RegisterAgent" \/ reg THEN RegResult("False", a, reg, 1)
             ELSE IF f = "RequestDefaultAgent" THEN RegResult("False", a, TRUE, 1)
             ELSE RegResult("True", a, TRUE, 1)

\* lines 547-552
unregister_agent(ag, reg, f) ==
    IF f = "get_object" THEN RegResult("None", ag, reg, 0)
    ELSE IF f = "UnregisterAgent" \/ ~reg THEN RegResult("None", ag, reg, 1)
    ELSE RegResult("None", ag, FALSE, 1)

FinishReg(op, r) ==
    /\ regCall' = [op |-> op, pre_agent |-> agent, pre_reg |-> registered,
                   cmds |-> r.cmds, ret |-> r.ret]
    /\ agent' = r.agent
    /\ registered' = r.reg
    /\ registeredOnce' = (registeredOnce \/ (op = "register_agent" /\ r.ret = "True"))

DoRegisterAgent ==
    /\ pc = "idle"
    /\ \E cb \in {"callable", "none"},
          f \in {NoFault, "Agent", "get_object", "RegisterAgent",
                 "RequestDefaultAgent"} :
          LET r == register_agent(agent, registered, f)
          IN  /\ FinishReg("register_agent", r)
              /\ ui_callback' = IF r.agent # agent THEN cb ELSE ui_callback
    /\ UNCHANGED <<agentCall, devVars, obexVars, recvVars, mediaVars, scanVars>>

DoUnregisterAgent ==
    /\ pc = "idle"
    /\ \E f \in {NoFault, "get_object", "UnregisterAgent"} :
          FinishReg("unregister_agent", unregister_agent(agent, registered, f))
    /\ UNCHANGED <<agentVars, devVars, obexVars, recvVars, mediaVars, scanVars>>

NextRegister ==
    \/ DoRegisterAgent
    \/ DoUnregisterAgent
    \/ DoPair

(***************************************************************************)
(* bluez.py:313 media_control and bluez.py:338 get_media_control_interface.*)
(* mobjs are the device objects carrying MediaControl1; pick is the match  *)
(* the scan of GetManagedObjects meets first; f the bus call that fails.   *)
(* The address "none" is None; NoPath is the result None.                  *)
(***************************************************************************)
valid_commands ==
    [c \in {"play", "pause", "next", "previous", "rewind"} |->
        CASE c = "play" -> "Play"
          [] c = "pause" -> "Pause"
          [] c = "next" -> "Next"
          [] c = "previous" -> "Previous"
          [] c = "rewind" -> "Rewind"]

MediaCommands == DOMAIN valid_commands \cup {"stop", "Play", "none"}
MediaAddrs == Addrs \cup {"aa", "", "none"}
NoPath == <<>>

\* address.replace(":", "_").upper()
formatted(address) == IF address = "aa" THEN "AA" ELSE address

\* lines 349-351: the objects the scan accepts
MediaMatches(mobjs, iface, address) ==
    {p \in mobjs : /\ (formatted(address) = "" \/ formatted(address) = p[2])
                   /\ startswith(p, iface)}

get_media_control_interface(mobjs, iface, address, pick, f) ==
    IF address = "none" \/ f = "GetManagedObjects" THEN NoPath
    ELSE IF MediaMatches(mobjs, iface, address) = {} THEN NoPath
    ELSE IF f = "get_object" THEN NoPath
    ELSE pick

NoMediaCall ==
    [op |-> "none", command |-> "none", address |-> "none", resolved |-> NoPath,
     ops |-> <<>>, raised |-> FALSE]

\* media_control that looks the command up before its try block
media_control_unguarded(mobjs, iface, command, address, pick, f) ==
    LET media_control_interface ==
            get_media_control_interface(mobjs, iface, address, pick, f)
        call == [NoMediaCall EXCEPT !.op = "media_control", !.command = command,
                                    !.address = address,
                                    !.resolved = media_control_interface]
    IN  IF command \notin DOMAIN valid_commands
        THEN [call EXCEPT !.raised = TRUE]
        ELSE [call EXCEPT !.ops = <<valid_commands[command]>>]

\* lines 326-336: the two tests only log; the try block catches the KeyError
\* of an unknown command and the AttributeError of getattr on None
media_control(mobjs, iface, command, address, pick, f) ==
    LET media_control_interface ==
            get_media_control_interface(mobjs, iface, address, pick, f)
        call == [NoMediaCall EXCEPT !.op = "media_control", !.command = command,
                                    !.address = address,
                                    !.resolved = media_control_interface]
    IN  IF command \notin DOMAIN valid_commands THEN call
        ELSE IF media_control_interface = NoPath THEN call
        ELSE [call EXCEPT !.ops = <<valid_commands[command]>>]

DoMediaControl ==
    /\ pc = "idle"
    /\ \E command \in MediaCommands, address \in MediaAddrs,
          f \in {NoFault, "GetManagedObjects", "get_object", "operation"} :
          LET matches == MediaMatches(mediaObjs, interface, address)
          IN  \E pick \in (IF matches = {} THEN {NoPath} ELSE matches) :
                 mediaCall' = media_control(mediaObjs, interface, command,
                                            address, pick, f)
    /\ UNCHANGED <<mediaObjs, agentVars, devVars, obexVars, recvVars, regVars,
                   scanVars>>

\* A device gains or loses its media-transport object.
MediaObjectChanges ==
    /\ \E p \in Paths :
          mediaObjs' = IF p \in mediaObjs THEN mediaObjs \ {p}
                       ELSE mediaObjs \cup {p}
    /\ UNCHANGED <<mediaCall, agentVars, devVars, obexVars, recvVars, regVars,
                   scanVars>>

NextMedia ==
    \/ DoMediaControl
    \/ MediaObjectChanges

(***************************************************************************)
(* bluez.py:40 get_paired_devices and bluez.py:78 get_discovered_devices.  *)
(* A device object has the Adapter property of its path, the Address of    *)
(* its path unless the property is missing, and maybe Paired.  A result is *)
(* given by its keys: the addresses of its entries, "none" being None.     *)
(***************************************************************************)
NoDevice == [present |-> FALSE, paired |-> FALSE, has_address |-> FALSE]
ScanStates ==
    {NoDevice} \cup [present : {TRUE}, paired : BOOLEAN, has_address : BOOLEAN]

\* device.get("Address")
Address(objs, p) == IF objs[p].has_address THEN p[2] ELSE "none"

NoScanCall == [op |-> "none", addresses |-> {}, paths |-> {}]

\* lines 46-54: the address is used as the key whatever it is
get_paired_devices(objs, iface) ==
    LET listed == {p \in Paths : /\ objs[p].present
                                 /\ objs[p].paired
                                 /\ p[1] = iface}
    IN  [op |-> "get_paired_devices",
         addresses |-> {Address(objs, p) : p \in listed}, paths |-> listed]

\* lines 84-98: an entry is appended only `if address`
get_discovered_devices(objs, iface) ==
    LET listed == {p \in Paths : /\ objs[p].present
                                 /\ p[1] = iface
                                 /\ Address(objs, p) # "none"}
    IN  [op |-> "get_discovered_devices",
         addresses |-> {Address(objs, p) : p \in listed}, paths |-> listed]

DoGetPairedDevices ==
    /\ pc = "idle"
    /\ scanCall' = get_paired_devices(scanObjs, interface)
    /\ UNCHANGED <<scanObjs, pathCall, agentVars, devVars, obexVars, recvVars,
                   regVars, mediaVars>>

DoGetDiscoveredDevices ==
    /\ pc = "idle"
    /\ scanCall' = get_discovered_devices(scanObjs, interface)
    /\ UNCHANGED <<scanObjs, pathCall, agentVars, devVars, obexVars, recvVars,
                   regVars, mediaVars>>

\* The platform finds, loses or updates a device.
DeviceObjectChanges ==
    /\ \E p \in Paths, s \in ScanStates :
          scanObjs' = [scanObjs EXCEPT ![p] = s]
    /\ UNCHANGED <<scanCall, pathCall, agentVars, devVars, obexVars, recvVars,
                   regVars, mediaVars>>

NextScan ==
    \/ DoGetPairedDevices
    \/ DoGetDiscoveredDevices
    \/ DeviceObjectChanges

(***************************************************************************)
(* bluez.py:100 get_device_path, character by character.  A string is the  *)
(* sequence of its characters; an address is one to MaxOctets groups of    *)
(* two hexadecimal digits joined by colons.                                *)
(***************************************************************************)
MaxOctets == 2

HexDigits == {"A", "F", "0"}
Octets == {<<a, b>> : a \in HexDigits, b \in HexDigits}

RECURSIVE AddressesOf(_)
AddressesOf(n) ==
    IF n = 1 THEN Octets
    ELSE {a \o <<":">> \o o : a \in AddressesOf(n - 1), o \in Octets}

AddressInputs == UNION {AddressesOf(n) : n \in 1..MaxOctets}

\* str.replace for one-character strings
replace(s, old, new) == [i \in 1..Len(s) |-> IF s[i] = old THEN new ELSE s[i]]

bluez_path == <<"/", "o", "r", "g", "/", "b", "l", "u", "e", "z">>

\* self.interface as text: hci1, hci10
InterfaceName(iface) ==
    <<"h", "c", "i">> \o [i \in 1..Len(iface) |-> IF iface[i] = 0 THEN "0" ELSE "1"]

\* get_device_path that leaves the address as it is
get_device_path_unformatted(iface, device_address) ==
    bluez_path \o <<"/">> \o InterfaceName(iface)
        \o <<"/", "d", "e", "v", "_">> \o device_address

\* lines 109-110
get_device_path_text(iface, device_address) ==
    LET formatted_address == replace(device_address, ":", "_")
    IN  bluez_path \o <<"/">> \o InterfaceName(iface)
            \o <<"/", "d", "e", "v", "_">> \o formatted_address

NoPathCall == [op |-> "none", address |-> <<>>, path |-> <<>>]

DoGetDevicePath ==
    /\ pc = "idle"
    /\ \E device_address \in AddressInputs :
          pathCall' = [op |-> "get_device_path", address |-> device_address,
                       path |-> get_device_path_text(interface, device_address)]
    /\ UNCHANGED <<scanObjs, scanCall, agentVars, devVars, obexVars, recvVars,
                   regVars, mediaVars>>

NextPath ==
    \/ DoGetDevicePath

(***************************************************************************)
(* Initial states and specifications.                                      *)
(***************************************************************************)
InitAgentPart ==
    /\ agentCall = NoAgentCall

InitDevicePart ==
    /\ devCall = NoDevCall

InitObexPart ==
    /\ pc = "idle"
    /\ sf = NoSend
    /\ has_session_bus = FALSE
    /\ has_obex_manager = FALSE
    /\ last_session_path = 0
    /\ transfer_status = "unset"
    /\ transfer_loop = "unset"
    /\ receivers = {}
    /\ sessions = {}
    /\ created = 0
    /\ transfers = <<>>
    /\ queue = <<>>
    /\ emitted = 0
    /\ own = {}

InitRestPart ==
    /\ rpc = "idle"
    /\ rf = NoReceive
    /\ opp_process = "none"
    /\ directory = {}
    /\ arrivals = 0
    /\ agent = 0
    /\ registered = FALSE
    /\ registeredOnce = FALSE
    /\ regCall = NoRegCall
    /\ mediaObjs = {}
    /\ mediaCall = NoMediaCall
    /\ scanObjs = [p \in Paths |-> NoDevice]
    /\ scanCall = NoScanCall
    /\ pathCall = NoPathCall

\* The Agent with either kind of callback; one adapter, no devices.
InitAgent ==
    /\ ui_callback \in {"callable", "none"}
    /\ interface = hci1
    /\ objects = [p \in Paths |-> Absent]
    /\ InitAgentPart /\ InitDevicePart /\ InitObexPart /\ InitRestPart

\* Any bound adapter, any managed-object graph.
InitDevice ==
    /\ ui_callback = "none"
    /\ interface \in Adapters
    /\ objects \in [Paths -> ObjStates]
    /\ InitAgentPart /\ InitDevicePart /\ InitObexPart /\ InitRestPart

\* One adapter; one device, in any state, or none.
InitRegister ==
    /\ ui_callback = "none"
    /\ interface = hci1
    /\ objects \in {o \in [Paths -> ObjStates] :
                       \A p \in Paths : p # <<hci1, "AA">> => o[p] = Absent}
    /\ InitAgentPart /\ InitDevicePart /\ InitObexPart /\ InitRestPart

\* Either adapter; no media-transport object yet.
InitMedia ==
    /\ ui_callback = "none"
    /\ interface \in Adapters
    /\ objects = [p \in Paths |-> Absent]
    /\ InitAgentPart /\ InitDevicePart /\ InitObexPart /\ InitRestPart

InitObex ==
    /\ ui_callback = "none"
    /\ interface = hci1
    /\ objects = [p \in Paths |-> Absent]
    /\ InitAgentPart /\ InitDevicePart /\ InitObexPart /\ InitRestPart

SpecAgent == InitAgent /\ [][NextAgent]_vars
SpecDevice == InitDevice /\ [][NextDevice]_vars
SpecObex == InitObex /\ [][NextObex]_vars
\* The calling flow goes on and the main loop dispatches what was delivered;
\* nothing obliges the service to emit.
SpecObexFair ==
    /\ SpecObex
    /\ WF_vars(DoSubscribe)
    /\ WF_vars(DispatchSignal)
    /\ WF_vars(DoFinish)
SpecSend == InitObex /\ [][NextSend]_vars
SpecRegister == InitRegister /\ [][NextRegister]_vars
SpecQuery == InitDevice /\ [][NextQuery]_vars
SpecMedia == InitMedia /\ [][NextMedia]_vars
SpecScan == InitMedia /\ [][NextScan]_vars
SpecPath == InitMedia /\ [][NextPath]_vars
SpecReceive == InitObex /\ [][NextReceive]_vars

(***************************************************************************)
(* Properties.                                                             *)
(***************************************************************************)
Called(op) == devCall.op = op
CalledPath == get_device_path(interface, devCall.addr)
Returned == pc = "returned"

\* C1: whenever send_file itself created the session, a RemoveSession command
\* for it has been issued by the time send_file returns, whatever the exit
\* path.
C1_CreatedSessionRemoved ==
    (Returned /\ sf.made # 0) => sf.removes >= 1

\* C2: when the Status events dispatched during the wait are all for the
\* awaited transfer, send_file stays in the wait while they are non-terminal,
\* and after the terminal one it returns exactly that status with exactly one
\* RemoveSession command issued.
C2_TransferLifecycle ==
    /\ (pc = "waiting" /\ ~sf.foreign /\ sf.last \notin Terminal)
          => transfer_loop = "running"
    /\ (Returned /\ sf.how = "normal" /\ ~sf.foreign)
          => (sf.last \in Terminal /\ sf.ret = sf.last /\ sf.removes = 1)

\* C3: in every handler a callback answer that is None or falsy gives the
\* rejection value False, never an accepted value.
C3_FalsyAnswerRejected ==
    (/\ agentCall.handler \in Handlers
     /\ agentCall.cb.kind = "return"
     /\ ~Truthy(agentCall.cb.val))
        => agentCall.result = Return(PyFalse)

\* C4: in every handler an exception raised by the callback is caught and
\* the handler returns the rejection value False.
C4_CallbackExceptionRejected ==
    (agentCall.handler \in Handlers /\ agentCall.cb.kind = "raise")
        => agentCall.result = Return(PyFalse)

\* C5: pair on a device whose Paired property reads true returns True and
\* issues no Pair command.
C5_PairIdempotent ==
    (/\ Called("pair")
     /\ devCall.pre.present /\ devCall.pre.paired
     /\ devCall.fault \notin {"get_object", "Get"})
        => (devCall.ret = "True" /\ devCall.cmds = 0)

C5_Witness ==
    /\ Called("pair")
    /\ devCall.pre.paired
    /\ devCall.fault = NoFault
    /\ devCall.ret = "True"
    /\ devCall.cmds = 0

\* C6: when the initial read says not paired, pair issues the Pair command
\* exactly once; it returns True only if the device is paired at the
\* read-back, and False when the command went through but the read-back says
\* not paired.
C6_PairReadBack ==
    (/\ Called("pair")
     /\ devCall.pre.present /\ ~devCall.pre.paired
     /\ devCall.fault \notin {"get_object", "Get"})
        => /\ devCall.cmds = 1
           /\ devCall.ret = "True" => objects[CalledPath].paired
           /\ (devCall.fault = NoFault /\ ~objects[CalledPath].paired)
                 => devCall.ret = "False"

C6_Witness ==
    /\ Called("pair")
    /\ devCall.pre.present /\ ~devCall.pre.paired
    /\ devCall.fault = NoFault
    /\ devCall.cmds = 1
    /\ ~objects[CalledPath].paired
    /\ devCall.ret = "False"

\* C7: a transport fault at any bus call inside pair makes pair return False.
C7_PairFaultReturnsFalse ==
    (Called("pair") /\ devCall.faulted) => devCall.ret = "False"

\* C8: disconnect on a device whose Connected property reads false returns
\* True and issues no Disconnect command.
C8_DisconnectIdempotent ==
    (/\ Called("disconnect")
     /\ devCall.pre.present /\ ~devCall.pre.connected
     /\ devCall.fault \notin {"get_object", "Get"})
        => (devCall.ret = "True" /\ devCall.cmds = 0)

C8_Witness ==
    /\ Called("disconnect")
    /\ devCall.pre.present /\ ~devCall.pre.connected
    /\ devCall.fault = NoFault
    /\ devCall.ret = "True"
    /\ devCall.cmds = 0

\* C9: connect returns True only if the device is connected at the read-back
\* after Connect, and disconnect on a connected device returns True only if
\* the device is no longer connected at the read-back after Disconnect.
C9_ReadBackVerified ==
    /\ (Called("connect") /\ devCall.ret = "True")
          => objects[CalledPath].connected
    /\ (Called("disconnect") /\ devCall.pre.connected /\ devCall.ret = "True")
          => ~objects[CalledPath].connected

\* C10: with no transport fault, unpair_device returns True without a
\* RemoveDevice command when the bound adapter has no device object with the
\* address; otherwise it issues RemoveDevice and returns False if that
\* object is still there at the re-scan and True if it is gone.
C10_UnpairVerified ==
    (Called("unpair_device") /\ devCall.fault = NoFault)
        => IF ~devCall.pre.present
           THEN devCall.ret = "True" /\ devCall.cmds = 0
           ELSE /\ devCall.cmds = 1
                /\ objects[CalledPath].present => devCall.ret = "False"
                /\ ~objects[CalledPath].present => devCall.ret = "True"

RecvReturned == rpc = "returned"

\* C11: when no new file appears within the timeout, receive_file returns
\* None and the push server it started no longer runs at the return.
C11_TimeoutStopsServer ==
    (RecvReturned /\ rf.how = "timeout" /\ rf.last = "none")
        => (rf.ret = 0 /\ opp_process # "running")

C13_MissingFileNoEffect ==
    [][(pc = "idle" /\ pc' = "returned" /\ sf'.how = "nofile")
          => (sf'.ret = "error" /\ UNCHANGED <<mgrVars, obexdVars>>)]_vars

C13_Witness ==
    /\ pc = "returned"
    /\ sf.how = "nofile"
    /\ sf.ret = "error"
    /\ sf.supplied = 0
    /\ created < MaxSessions

\* C14: at most one session that this manager's create_obex_session opened
\* is open at any time.
C14_OneOwnSession ==
    Cardinality(own) <= 1

\* C15: over any register_agent / unregister_agent calls the Agent object is
\* built at most once, and a call that finds one keeps that very object.
C15_AgentBuiltOnce ==
    /\ agent <= 1
    /\ (regCall.op # "none" /\ regCall.pre_agent # 0) => agent = regCall.pre_agent

C15_Witness ==
    /\ regCall.op = "register_agent"
    /\ regCall.pre_agent = 1
    /\ regCall.ret = "True"
    /\ agent = 1

C17_PairAfterRegister ==
    (Called("pair") /\ devCall.cmds >= 1) => registeredOnce

\* C18: once SendFile has succeeded and the awaited transfer has emitted a
\* terminal Status, send_file eventually returns.
C18_TerminalStatusReturns ==
    (pc \in {"started", "waiting"} /\ sf.term) ~> Returned

\* C19: when a bus call of is_device_paired or is_device_connected fails,
\* the function returns False.
C19_QueryFaultReturnsFalse ==
    ((Called("is_device_paired") \/ Called("is_device_connected"))
      /\ devCall.faulted)
        => devCall.ret = "False"

\* C20: media_control never raises, and it invokes no remote media operation
\* when the command is not in the vocabulary or no media-transport object
\* was resolved for the address.
C20_MediaControlGuarded ==
    mediaCall.op = "media_control"
        => /\ ~mediaCall.raised
           /\ (\/ mediaCall.command \notin DOMAIN valid_commands
               \/ mediaCall.resolved = NoPath) => mediaCall.ops = <<>>

C20_Witness ==
    /\ mediaCall.op = "media_control"
    /\ mediaCall.command = "stop"
    /\ mediaCall.resolved # NoPath
    /\ mediaCall.ops = <<>>
    /\ ~mediaCall.raised

\* C21: every entry that get_paired_devices or get_discovered_devices returns
\* is a device under the bound adapter whose Address is present; no entry is
\* keyed by a missing address.
C21_ScanEntriesAddressed ==
    scanCall.op # "none"
        => /\ "none" \notin scanCall.addresses
           /\ \A p \in scanCall.paths : p[1] = interface

\* the part of a path after its last "/"
LastSegment(path) ==
    LET last == CHOOSE i \in 1..Len(path) :
                    /\ path[i] = "/"
                    /\ \A j \in (i + 1)..Len(path) : path[j] # "/"
    IN  SubSeq(path, last + 1, Len(path))

\* the substitution undone on the trailing segment, after its "dev_"
address_of_path(path) ==
    LET segment == LastSegment(path)
    IN  replace(SubSeq(segment, 5, Len(segment)), "_", ":")

\* C22: for a colon-separated address, get_device_path yields the root, the
\* adapter name and a last segment "dev_" followed by the address with every
\* ":" turned into "_"; undoing the substitution on that segment gives the
\* address back.
C22_DevicePathRoundTrip ==
    pathCall.op = "get_device_path"
        => LET segment == LastSegment(pathCall.path)
               head == bluez_path \o <<"/">> \o InterfaceName(interface) \o <<"/">>
               tail == SubSeq(segment, 5, Len(segment))
           IN  /\ pathCall.path = head \o segment
               /\ SubSeq(segment, 1, 4) = <<"d", "e", "v", "_">>
               /\ Len(tail) = Len(pathCall.address)
               /\ \A i \in 1..Len(tail) :
                     tail[i] = IF pathCall.address[i] = ":" THEN "_"
                               ELSE pathCall.address[i]
               /\ address_of_path(pathCall.path) = pathCall.address

C22_Witness ==
    /\ pathCall.op = "get_device_path"
    /\ interface = hci10
    /\ \E i \in 1..Len(pathCall.address) : pathCall.address[i] = ":"
    /\ \E i \in 1..Len(pathCall.path) : pathCall.path[i] = "_" /\ i > 20

\* C23: while send_file waits for one transfer, a Status event on another
\* transfer's path neither changes the recorded status nor ends the wait.
C23_ForeignStatusIgnored ==
    [][(/\ pc = "waiting"
        /\ queue # <<>>
        /\ queue' = Tail(queue)
        /\ Head(queue).path # sf.transfer
        /\ Head(queue).changed \in Statuses)
          => (transfer_status' = transfer_status /\ transfer_loop' = transfer_loop)]_vars

\* C24: whatever calls went before, send_file for an existing file on an
\* open session the caller supplies, with no bus call failing, issues
\* SendFile and goes on to wait.
C24_SuppliedSessionUsable ==
    pc = "idle"
        => \A s \in sessions :
              send_file_begin(Fields, TRUE, s, NoFault, NoFault).started

\* C25: between calls, last_session_path is None exactly when no session
\* this manager created is open, and otherwise names such an open session.
C25_LastSessionPathTracks ==
    pc \in {"idle", "returned"}
        => /\ (last_session_path = 0) <=> (own = {})
           /\ last_session_path # 0 => last_session_path \in own

\* C26: unpair_device sends RemoveDevice only for an object under the bound
\* adapter, and with no transport fault it returns True once the bound
\* adapter's object is gone, whatever other adapters hold.
C26_OtherAdaptersIgnored ==
    Called("unpair_device")
        => /\ devCall.cmds >= 1 => devCall.target[1] = interface
           /\ (devCall.fault = NoFault /\ ~objects[CalledPath].present)
                 => devCall.ret = "True"

====
